---- MODULE Spec2Model ----
(***************************************************************************)
(* Model of the Phoenix CAN message catalog and codec (src/messages.rs):   *)
(* the nine IscFrame implementations (ID constants and into_frame) and     *)
(* CanMessage::from_frame.  An f32 is carried as its IEEE-754 fields       *)
(* (1 sign bit, 8 exponent bits, 23 mantissa bits), u16/u8 as naturals of  *)
(* that width; a panic of the Rust code (index or range out of bounds,     *)
(* unwrap of None) is the outcome "Panic".                                 *)
(***************************************************************************)
EXTENDS Integers, Sequences, FiniteSets, TLC

\* ------------------------------------------------------------------ bounds
NumByteSamples == 3
NumFloatSamples == 4
NumCountSamples == 4
NumUnknownIds == 2
MaxDataLen == 8

ByteSampleSeq == <<0, 255, 18, 128, 1>>
\* f32 values as IEEE-754 fields: 4.818, 10.2, 0.0, a NaN, all ones, -1.5
F32(s, e, m) == [sign |-> s, exp |-> e, mant |-> m]
FloatSampleSeq ==
    <<F32(0, 129, 1715470), F32(0, 130, 2306867), F32(0, 0, 0),
      F32(0, 255, 4194305), F32(1, 255, 8388607), F32(1, 127, 4194304)>>
CountSampleSeq == <<20, 4660, 0, 65535, 256, 255>>
UnknownIdSeq == <<9, 536870911, 10, 256>>

ByteSamples == {ByteSampleSeq[i] : i \in 1..NumByteSamples}
FloatSamples == {FloatSampleSeq[i] : i \in 1..NumFloatSamples}
CountSamples == {CountSampleSeq[i] : i \in 1..NumCountSamples}
UnknownIds == {UnknownIdSeq[i] : i \in 1..NumUnknownIds}
U8 == 0..255

RECURSIVE SeqsOfLen(_, _)
SeqsOfLen(S, n) ==
    IF n = 0 THEN {<<>>}
    ELSE {Append(s, b) : s \in SeqsOfLen(S, n - 1), b \in S}

Payloads == UNION {SeqsOfLen(ByteSamples, n) : n \in 0..MaxDataLen}

\* --------------------------------------------------------- result values
\* ConvertErr::InvalidFrame
InvalidFrame == "InvalidFrame"

Ok(v) == [tag |-> "Ok", val |-> v]
Err(e) == [tag |-> "Err", err |-> e]
Some(v) == [tag |-> "Some", val |-> v]
None == [tag |-> "None"]
Panic == [tag |-> "Panic"]

\* ----------------------------------------------------------- identifiers
AutonDisable_ID == 0
SetBrake_ID == 1
LockBrake_ID == 2
UnlockBrake_ID == 3
SetAngle_ID == 4
GetAngle_ID == 5
\* variant: the identifier of the preceding impl copied unchanged
SetSpeed_ID_dup == GetAngle_ID
SetSpeed_ID == 6
EncoderCount_ID == 7
\* variant: an identifier one past the catalog
TrainingMode_ID_off == EncoderCount_ID + 2
TrainingMode_ID == 8

\* embedded_hal ExtendedId::new: None above the 29-bit maximum
ExtendedIdNew(raw) ==
    IF raw <= 536870911 THEN Some([kind |-> "Extended", raw |-> raw]) ELSE None

\* ------------------------------------------------------ byte conversions
\* variant: big-endian byte order
u16_to_be_bytes(x) == <<(x \div 256) % 256, x % 256>>

u16_to_le_bytes(x) == <<x % 256, (x \div 256) % 256>>

\* f32::to_le_bytes: the little-endian bytes of the 32-bit pattern
\* sign * 2^31 + exp * 2^23 + mant
f32_to_le_bytes(x) ==
    <<x.mant % 256,
      (x.mant \div 256) % 256,
      (x.exp % 2) * 128 + (x.mant \div 65536),
      x.sign * 128 + (x.exp \div 2)>>

u16_from_le_bytes(b) == b[1] + 256 * b[2]

\* f32::from_le_bytes: the bit pattern whose little-endian bytes are b
f32_from_le_bytes(b) ==
    [sign |-> b[4] \div 128,
     exp |-> (b[4] % 128) * 2 + (b[3] \div 128),
     mant |-> (b[3] % 128) * 65536 + b[2] * 256 + b[1]]

\* value.data()[i] with i counted from 0: panics when out of bounds
Index(data, i) == IF i < Len(data) THEN Ok(data[i + 1]) ELSE Panic

\* variant: a range that must cover the whole payload
SliceRange_exact(data, start, end) ==
    IF end = Len(data) THEN Ok(SubSeq(data, start + 1, end)) ELSE Panic

\* value.data()[start..end]: panics when end exceeds the length
SliceRange(data, start, end) ==
    IF end <= Len(data) THEN Ok(SubSeq(data, start + 1, end)) ELSE Panic

\* <[u8; n]>::try_from(slice): fails unless the slice has exactly n bytes
TryInto(slice, n) == IF Len(slice) = n THEN Ok(slice) ELSE Err("TryFromSliceError")

\* variant: unwrap in place of ok_or
ok_or_unwrap(opt, e) == IF opt.tag = "Some" THEN Ok(opt.val) ELSE Panic

\* Option::ok_or
ok_or(opt, e) == IF opt.tag = "Some" THEN Ok(opt.val) ELSE Err(e)

\* Frame::new of the external frame type T: None when it rejects the pair
T_new(id, data, accept) ==
    IF accept /\ Len(data) <= 8 THEN Some([id |-> id, data |-> data]) ELSE None

\* ----------------------------------------------------------------- encode
\* variant: the identifier built as a standard one
NewFrame_standard(ID, data, accept) ==
    ok_or(T_new([kind |-> "Standard", raw |-> ID], data, accept), InvalidFrame)

\* T::new(ExtendedId::new(Self::ID).unwrap(), &data).ok_or(InvalidFrame)
NewFrame(ID, data, accept) ==
    LET id == ExtendedIdNew(ID)
    IN  IF id.tag = "None" THEN Panic
        ELSE ok_or(T_new(id.val, data, accept), InvalidFrame)

\* the default method of the trait, for a type with identifier ID
IscFrame_into_frame(ID, accept) == NewFrame(ID, <<>>, accept)

SetBrake_into_frame(self, accept) ==
    LET data == <<self.percent>>
    IN  NewFrame(SetBrake_ID, data, accept)

SetAngle_into_frame(self, accept) ==
    LET data == f32_to_le_bytes(self.angle)
    IN  NewFrame(SetAngle_ID, data, accept)

GetAngle_into_frame(self, accept) ==
    LET data == f32_to_le_bytes(self.angle)
    IN  NewFrame(GetAngle_ID, data, accept)

SetSpeed_into_frame(self, accept) ==
    LET data == <<self.percent>>
    IN  NewFrame(SetSpeed_ID, data, accept)

\* variant: the two fields concatenated in the other order
EncoderCount_into_frame_swapped(self, accept) ==
    LET count == u16_to_le_bytes(self.count)
        vel == f32_to_le_bytes(self.velocity)
        data == vel \o count
    IN  NewFrame(EncoderCount_ID, data, accept)

EncoderCount_into_frame(self, accept) ==
    LET count == u16_to_le_bytes(self.count)
        vel == f32_to_le_bytes(self.velocity)
        data == count \o vel
    IN  NewFrame(EncoderCount_ID, data, accept)

\* into_frame as resolved by the static type of the message
into_frame(m, accept) ==
    CASE m.variant = "AutonDisable" -> IscFrame_into_frame(AutonDisable_ID, accept)
      [] m.variant = "SetBrake" -> SetBrake_into_frame(m, accept)
      [] m.variant = "LockBrake" -> IscFrame_into_frame(LockBrake_ID, accept)
      [] m.variant = "UnlockBrake" -> IscFrame_into_frame(UnlockBrake_ID, accept)
      [] m.variant = "SetAngle" -> SetAngle_into_frame(m, accept)
      [] m.variant = "GetAngle" -> GetAngle_into_frame(m, accept)
      [] m.variant = "SetSpeed" -> SetSpeed_into_frame(m, accept)
      [] m.variant = "EncoderCount" -> EncoderCount_into_frame(m, accept)
      [] m.variant = "TrainingMode" -> IscFrame_into_frame(TrainingMode_ID, accept)

\* ----------------------------------------------------------------- decode
from_frame_SetBrake(value) ==
    LET b == Index(value.data, 0)
    IN  IF b.tag = "Panic" THEN Panic
        ELSE Ok([variant |-> "SetBrake", percent |-> b.val])

from_frame_SetSpeed(value) ==
    LET b == Index(value.data, 0)
    IN  IF b.tag = "Panic" THEN Panic
        ELSE Ok([variant |-> "SetSpeed", percent |-> b.val])

\* value.data()[start..end].try_into().map_err(|_| InvalidFrame)
SliceTryInto(data, start, end) ==
    LET s == SliceRange(data, start, end)
    IN  IF s.tag = "Panic" THEN Panic
        ELSE LET a == TryInto(s.val, end - start)
             IN  IF a.tag = "Ok" THEN a ELSE Err(InvalidFrame)

from_frame_SetAngle(value) ==
    LET a == SliceTryInto(value.data, 0, 4)
    IN  IF a.tag # "Ok" THEN a
        ELSE Ok([variant |-> "SetAngle", angle |-> f32_from_le_bytes(a.val)])

from_frame_GetAngle(value) ==
    LET a == SliceTryInto(value.data, 0, 4)
    IN  IF a.tag # "Ok" THEN a
        ELSE Ok([variant |-> "GetAngle", angle |-> f32_from_le_bytes(a.val)])

from_frame_EncoderCount(value) ==
    LET c == SliceTryInto(value.data, 0, 2)
    IN  IF c.tag # "Ok" THEN c
        ELSE LET v == SliceTryInto(value.data, 2, 6)
             IN  IF v.tag # "Ok" THEN v
                 ELSE Ok([variant |-> "EncoderCount",
                          count |-> u16_from_le_bytes(c.val),
                          velocity |-> f32_from_le_bytes(v.val)])

\* the match on id.as_raw(): the first arm whose constant equals raw
match_raw(raw, value) ==
    IF raw = AutonDisable_ID THEN Ok([variant |-> "AutonDisable"])
    ELSE IF raw = SetBrake_ID THEN from_frame_SetBrake(value)
    ELSE IF raw = LockBrake_ID THEN Ok([variant |-> "LockBrake"])
    ELSE IF raw = UnlockBrake_ID THEN Ok([variant |-> "UnlockBrake"])
    ELSE IF raw = SetAngle_ID THEN from_frame_SetAngle(value)
    ELSE IF raw = GetAngle_ID THEN from_frame_GetAngle(value)
    ELSE IF raw = SetSpeed_ID THEN from_frame_SetSpeed(value)
    ELSE IF raw = EncoderCount_ID THEN from_frame_EncoderCount(value)
    ELSE IF raw = TrainingMode_ID THEN Ok([variant |-> "TrainingMode"])
    ELSE Err(InvalidFrame)

\* variant: the identifier kind is not examined
from_frame_any_kind(value) == match_raw(value.id.raw, value)

from_frame(value) ==
    IF value.id.kind = "Extended" THEN match_raw(value.id.raw, value)
    ELSE Err(InvalidFrame)

\* ------------------------------------------------------------ input sets
Messages ==
    {[variant |-> v] : v \in {"AutonDisable", "LockBrake", "UnlockBrake", "TrainingMode"}}
    \cup {[variant |-> v, percent |-> p] : v \in {"SetBrake", "SetSpeed"}, p \in U8}
    \cup {[variant |-> v, angle |-> a] : v \in {"SetAngle", "GetAngle"}, a \in FloatSamples}
    \cup {[variant |-> "EncoderCount", count |-> c, velocity |-> f] :
             c \in CountSamples, f \in FloatSamples}

ExtendedIds == {[kind |-> "Extended", raw |-> r] : r \in (0..8) \cup UnknownIds}
StandardIds == {[kind |-> "Standard", raw |-> r] : r \in (0..9) \cup {2047}}
BusIds == ExtendedIds \cup StandardIds

NoMsg == [variant |-> "none"]
NoFrame == [id |-> [kind |-> "none", raw |-> 0], data |-> <<>>]
NoRes == [tag |-> "none"]

\* ------------------------------------------------------------------ state
VARIABLES op, msg, accept, ctor, encRes, frame, decRes, prevRes

vars == <<op, msg, accept, ctor, encRes, frame, decRes, prevRes>>

Init ==
    /\ op = "init"
    /\ msg = NoMsg
    /\ accept = TRUE
    /\ ctor = NoFrame
    /\ encRes = NoRes
    /\ frame = NoFrame
    /\ decRes = NoRes
    /\ prevRes = NoRes

\* the (identifier, payload) pair into_frame hands to T::new
CtorCall(m) ==
    LET r == into_frame(m, TRUE)
    IN  IF r.tag = "Ok" THEN r.val ELSE NoFrame

\* a node encodes message m; the frame type answers acc to the constructor call
EncodeMsg(m, acc) ==
    /\ op' = "encode"
    /\ msg' = m
    /\ accept' = acc
    /\ ctor' = CtorCall(m)
    /\ encRes' = into_frame(m, acc)
    /\ frame' = NoFrame
    /\ decRes' = NoRes
    /\ prevRes' = NoRes

Encode ==
    /\ op = "init"
    /\ \E m \in Messages, acc \in BOOLEAN : EncodeMsg(m, acc)

\* the frame just encoded is decoded again
RoundTrip ==
    /\ op = "encode"
    /\ encRes.tag = "Ok"
    /\ op' = "roundtrip"
    /\ frame' = encRes.val
    /\ decRes' = from_frame(encRes.val)
    /\ UNCHANGED <<msg, accept, ctor, encRes, prevRes>>

\* the bus driver hands over an arbitrary frame
ReceiveFrame(id, data) ==
    /\ op' = "receive"
    /\ frame' = [id |-> id, data |-> data]
    /\ decRes' = from_frame([id |-> id, data |-> data])
    /\ msg' = NoMsg
    /\ accept' = TRUE
    /\ ctor' = NoFrame
    /\ encRes' = NoRes
    /\ prevRes' = NoRes

Receive ==
    /\ op = "init"
    /\ \E id \in BusIds, data \in Payloads : ReceiveFrame(id, data)

\* the same frame arrives with one more trailing byte
AppendTrailing(b) ==
    /\ op \in {"receive", "append"}
    /\ Len(frame.data) < MaxDataLen
    /\ op' = "append"
    /\ frame' = [frame EXCEPT !.data = Append(frame.data, b)]
    /\ decRes' = from_frame(frame')
    /\ prevRes' = decRes
    /\ UNCHANGED <<msg, accept, ctor, encRes>>

\* the call has returned; every conversion starts afresh, nothing is kept
Return ==
    /\ op # "init"
    /\ op' = "init"
    /\ msg' = NoMsg
    /\ accept' = TRUE
    /\ ctor' = NoFrame
    /\ encRes' = NoRes
    /\ frame' = NoFrame
    /\ decRes' = NoRes
    /\ prevRes' = NoRes

Next ==
    \/ Encode
    \/ RoundTrip
    \/ Receive
    \/ \E b \in ByteSamples : AppendTrailing(b)
    \/ Return

Spec == Init /\ [][Next]_vars

\* ------------------------------------------------- the catalog, as tabled
\* identifier of each variant and payload length of each identifier (spec 3, 4.1)
CatalogId(v) ==
    CASE v = "AutonDisable" -> 0 [] v = "SetBrake" -> 1 [] v = "LockBrake" -> 2
      [] v = "UnlockBrake" -> 3 [] v = "SetAngle" -> 4 [] v = "GetAngle" -> 5
      [] v = "SetSpeed" -> 6 [] v = "EncoderCount" -> 7 [] v = "TrainingMode" -> 8

CatalogVariant(r) ==
    CASE r = 0 -> "AutonDisable" [] r = 1 -> "SetBrake" [] r = 2 -> "LockBrake"
      [] r = 3 -> "UnlockBrake" [] r = 4 -> "SetAngle" [] r = 5 -> "GetAngle"
      [] r = 6 -> "SetSpeed" [] r = 7 -> "EncoderCount" [] r = 8 -> "TrainingMode"

LayoutLen(r) ==
    CASE r \in {0, 2, 3, 8} -> 0 [] r \in {1, 6} -> 1 [] r \in {4, 5} -> 4 [] r = 7 -> 6

\* the 32-bit pattern of an f32 as two 16-bit halves, and its bytes, low first
HiHalf(x) == x.sign * 32768 + x.exp * 128 + (x.mant \div 65536)
LoHalf(x) == x.mant % 65536
PatternBytesLE(x) ==
    <<LoHalf(x) % 256, LoHalf(x) \div 256, HiHalf(x) % 256, HiHalf(x) \div 256>>

\* the f32 whose pattern has the four bytes d[o+1..o+4], low byte first
PatternAt(d, o) ==
    LET hi == d[o + 4] * 256 + d[o + 3]
        lo == d[o + 2] * 256 + d[o + 1]
    IN  [sign |-> hi \div 32768, exp |-> (hi % 32768) \div 128,
         mant |-> (hi % 128) * 65536 + lo]

\* the payload the layout table prescribes for message m
LayoutPayload(m) ==
    CASE m.variant \in {"AutonDisable", "LockBrake", "UnlockBrake", "TrainingMode"} -> <<>>
      [] m.variant \in {"SetBrake", "SetSpeed"} -> <<m.percent>>
      [] m.variant \in {"SetAngle", "GetAngle"} -> PatternBytesLE(m.angle)
      [] m.variant = "EncoderCount" ->
            <<m.count % 256, m.count \div 256>> \o PatternBytesLE(m.velocity)

\* the message the layout table reads from the leading bytes of payload d
LayoutMessage(r, d) ==
    CASE r \in {0, 2, 3, 8} -> [variant |-> CatalogVariant(r)]
      [] r \in {1, 6} -> [variant |-> CatalogVariant(r), percent |-> d[1]]
      [] r \in {4, 5} -> [variant |-> CatalogVariant(r), angle |-> PatternAt(d, 0)]
      [] r = 7 -> [variant |-> "EncoderCount", count |-> d[1] + 256 * d[2],
                   velocity |-> PatternAt(d, 2)]

Encoding == op \in {"encode", "roundtrip"}
Decoding == op \in {"receive", "append"}
IsExtended == frame.id.kind = "Extended"

\* ------------------------------------------------------------------ claims

\* C1: decoding the frame that into_frame produced (when the constructor
\* accepted it) succeeds and returns the original message, every field
\* bit-for-bit equal.
C1_RoundTrip == op = "roundtrip" => decRes = Ok(msg)

C1_Witness ==
    /\ op = "roundtrip"
    /\ msg = [variant |-> "EncoderCount", count |-> 20, velocity |-> F32(0, 130, 2306867)]
    /\ decRes = Ok(msg)

\* C2: from_frame on extended identifier 4 or 5 with fewer than 4 payload
\* bytes, or identifier 7 with fewer than 6, returns Err(InvalidFrame).
C2_TruncatedRejected ==
    (/\ Decoding
     /\ IsExtended
     /\ \/ frame.id.raw \in {4, 5} /\ Len(frame.data) < 4
        \/ frame.id.raw = 7 /\ Len(frame.data) < 6)
    => decRes = Err(InvalidFrame)

\* C3: into_frame builds the frame with an extended identifier whose raw
\* value is the variant's catalog value, whatever the fields are.
C3_IdentifierFidelity ==
    Encoding =>
        /\ ctor.id = [kind |-> "Extended", raw |-> CatalogId(msg.variant)]
        /\ encRes.tag = "Ok" => encRes.val.id = ctor.id

C3_Witness ==
    /\ op = "encode"
    /\ msg.variant = "EncoderCount"
    /\ msg.count = 65535
    /\ encRes.tag = "Ok"
    /\ encRes.val.id.raw = 7

\* C4: the payload into_frame hands to the frame constructor has exactly the
\* layout length and content of the variant: empty, the percent byte, the
\* four little-endian bytes of the angle, or count (low byte first) followed
\* by the four little-endian bytes of velocity.
C4_PayloadLayout ==
    Encoding =>
        /\ ctor.data = LayoutPayload(msg)
        /\ Len(ctor.data) = LayoutLen(CatalogId(msg.variant))
        /\ encRes.tag = "Ok" => encRes.val.data = ctor.data

C4_Witness ==
    /\ op = "encode"
    /\ msg = [variant |-> "EncoderCount", count |-> 4660, velocity |-> F32(0, 130, 2306867)]
    /\ ctor.data = <<52, 18, 51, 51, 35, 65>>

\* C5: from_frame on an extended identifier outside 0..8 returns
\* Err(InvalidFrame) for every payload.
C5_UnknownIdRejected ==
    (Decoding /\ IsExtended /\ frame.id.raw \notin 0..8) => decRes = Err(InvalidFrame)

C5_Witness ==
    /\ op = "receive"
    /\ frame.id = [kind |-> "Extended", raw |-> 9]
    /\ Len(frame.data) = MaxDataLen
    /\ decRes = Err(InvalidFrame)

\* C6: from_frame on a standard identifier returns Err(InvalidFrame) for
\* every raw value and every payload, the empty one included.
C6_StandardRejected ==
    (Decoding /\ frame.id.kind = "Standard") => decRes = Err(InvalidFrame)

C6_Witness ==
    /\ op = "receive"
    /\ frame.id = [kind |-> "Standard", raw |-> 1]
    /\ frame.data = <<>>
    /\ decRes = Err(InvalidFrame)

\* C7: for a catalog identifier and a payload at least as long as the layout,
\* from_frame succeeds with the variant of that identifier and fields read
\* from the leading layout bytes only; appending a trailing byte to a frame
\* that decoded leaves the decoded message unchanged.
C7_TrailingBytesIgnored ==
    /\ (/\ Decoding
        /\ IsExtended
        /\ frame.id.raw \in 0..8
        /\ Len(frame.data) >= LayoutLen(frame.id.raw))
       => decRes = Ok(LayoutMessage(frame.id.raw, frame.data))
    /\ (op = "append" /\ prevRes.tag = "Ok") => decRes = prevRes

C7_Witness ==
    /\ op = "append"
    /\ frame.id = [kind |-> "Extended", raw |-> 7]
    /\ Len(frame.data) = MaxDataLen
    /\ frame.data[7] # frame.data[1]
    /\ prevRes.tag = "Ok"
    /\ decRes = prevRes

\* C8: into_frame returns Err(InvalidFrame) exactly when the frame
\* constructor rejects the pair, Ok with the constructed frame otherwise,
\* and never aborts.
C8_EncodeFailureSurfaced ==
    Encoding =>
        LET rejected == T_new(ctor.id, ctor.data, accept) = None
        IN  /\ encRes.tag \in {"Ok", "Err"}
            /\ encRes = Err(InvalidFrame) <=> rejected
            /\ ~rejected => encRes = Ok(ctor)

C8_Witness ==
    /\ op = "encode"
    /\ msg.variant = "SetAngle"
    /\ ~accept
    /\ encRes = Err(InvalidFrame)

\* C9: the nine ID constants are pairwise distinct, are exactly 0..8 and fit
\* 29 bits; a message from_frame returns is of the variant whose ID constant
\* equals the frame's raw extended identifier.
IdOf ==
    [AutonDisable |-> AutonDisable_ID, SetBrake |-> SetBrake_ID,
     LockBrake |-> LockBrake_ID, UnlockBrake |-> UnlockBrake_ID,
     SetAngle |-> SetAngle_ID, GetAngle |-> GetAngle_ID,
     SetSpeed |-> SetSpeed_ID, EncoderCount |-> EncoderCount_ID,
     TrainingMode |-> TrainingMode_ID]

C9_UniqueClosedDispatch ==
    /\ \A v, w \in DOMAIN IdOf : v # w => IdOf[v] # IdOf[w]
    /\ {IdOf[v] : v \in DOMAIN IdOf} = 0..8
    /\ \A v \in DOMAIN IdOf : IdOf[v] <= 536870911
    /\ (Decoding /\ decRes.tag = "Ok") =>
          /\ IsExtended
          /\ IdOf[decRes.val.variant] = frame.id.raw
          /\ \A v \in DOMAIN IdOf : IdOf[v] = frame.id.raw => v = decRes.val.variant

C9_Witness ==
    /\ op = "receive"
    /\ frame.id = [kind |-> "Extended", raw |-> 6]
    /\ decRes.tag = "Ok"
    /\ decRes.val.variant = "SetSpeed"

\* C10: from_frame on extended identifier 1 or 6 with an empty payload returns
\* Err(InvalidFrame); and for every frame from_frame returns Ok or Err.
C10_EmptyPayloadRejected ==
    /\ (Decoding /\ IsExtended /\ frame.id.raw \in {1, 6} /\ frame.data = <<>>)
       => decRes = Err(InvalidFrame)
    /\ Decoding => decRes.tag \in {"Ok", "Err"}

====
